---- MODULE Spec2Model ----
(***************************************************************************)
(* A model of offlineimap's Maildir back end:                              *)
(*   offlineimap/folder/Maildir.py      gettimeseq and MaildirFolder       *)
(*   offlineimap/repository/Maildir.py  MaildirRepository (syncmoves)      *)
(*                                                                         *)
(* Seven specifications share the variables below:                         *)
(*   SpecSeq    concurrent callers of gettimeseq                           *)
(*   Spec       one MaildirFolder driven by one worker, with another       *)
(*              agent (a mail client, a delivery agent) touching the       *)
(*              same directory between the worker's calls                  *)
(*   SpecScan   a folder found with any files in new and cur, scanned      *)
(*   SpecCrash  savemessage executed system call by system call, the       *)
(*              process being killed and restarted at any point            *)
(*   SpecAlone  a folder found with any files, and one worker calling      *)
(*              the folder's methods with nobody else touching it          *)
(*   SpecMoves  MaildirRepository.syncmoves run over the move markers,     *)
(*              and run again after a kill                                 *)
(*   SpecRepo   makefolder, getfolders and forgetfolders on one            *)
(*              MaildirRepository                                          *)
(***************************************************************************)
EXTENDS Integers, Sequences, FiniteSets, TLC

\* ------------------------------------------------------------------ bounds
\* Concurrent callers of gettimeseq.
NThreads == 2
\* Calls of gettimeseq in one behaviour.
MaxCalls == 3
\* The clock runs from second 1 to second MaxTime.
MaxTime == 2
\* Files in the folder's three directories at any time.
MaxFiles == 2
\* The disambiguator of one second runs from 0 to MaxSeq.
MaxSeq == 1
\* Times the other agent touches the folder in one behaviour.
MaxExt == 1
\* Files in new and cur when a folder is scanned.
MaxListed == 3
\* Move markers a run of syncmoves finds.
MaxMarkers == 2
\* Runs of syncmoves, one after the other.
MaxRuns == 2
\* Calls of makefolder on one repository.
MaxMake == 2

VARIABLES
    \* the clock and the module globals of folder/Maildir.py
    now, lasttime, timeseq, timelock,
    \* callers of gettimeseq: position, local thistime, and the pairs returned
    pc, thistime, issued,
    \* one Maildir folder on disk: the files of new, cur and tmp
    fs,
    \* MaildirFolder.messagelist, and whether it is set (not None)
    messagelist, listcached,
    \* the worker's last call of a MaildirFolder method and what it did
    lastop,
    \* how often the other agent has touched the folder
    extsteps,
    \* a savemessage under way, system call by system call: its position,
    \* arguments and messagename
    save,
    \* where the last kill of the process hit a savemessage, and the files
    \* of new and cur when that savemessage began
    crash, base,
    \* syncmoves: the markers found at the start (what each file in mv says),
    \* the marker files still on disk, and the position of the run
    markers, mv, runpc,
    \* the remote folders (uids held, expunge attribute), the files of the
    \* local folders by uid, the status folders (messagelist in memory and
    \* as last saved), the local dirty_status and self.deletecounter
    remote, rexpunge, localuids, status, saved, dirty, deletecounter,
    \* the repositories whose folder list is cached, the calls syncmoves
    \* made on its collaborators, and how the last marker ended
    foldercache, calls, lastmove,
    \* the markers gone through in this run, the markers with source =
    \* destination that lie in folder A besides those of mv, the markers
    \* that have been replayed to the end, and the runs begun so far
    processed, bulk, replayed, runs,
    \* MaildirRepository: the directories and the regular files under (and
    \* next to) self.root, self.folders (the list getfolders caches), the
    \* separator and account.dryrun, the last call of a repository method
    \* and what it did, and the number of makefolder calls so far
    rdirs, rfiles, folders, sep, dryrun, lastrepo, makes

seqvars == <<now, lasttime, timeseq, timelock, pc, thistime, issued>>

foldervars == <<fs, messagelist, listcached, lastop, extsteps>>

crashvars == <<save, crash, base>>

movevars == <<markers, mv, runpc, remote, rexpunge, localuids, status, saved,
              dirty, deletecounter, foldercache, calls, lastmove,
              processed, bulk, replayed, runs>>

repovars == <<rdirs, rfiles, folders, sep, dryrun, lastrepo, makes>>

vars == <<seqvars, foldervars, crashvars, movevars, repovars>>

\* ============================================================ data model
\* Flag codes are the ASCII codes of the Maildir flag letters (F and S
\* here); the seen flag 'S' decides between new and cur.
FlagF == 70
FlagS == 83
FlagCodes == {FlagF, FlagS}

\* Characters of a message body: carriage return, line feed, a letter.
CR == 13
LF == 10
LetterA == 97

\* A file name is token[,U=uid][,FMD5=hash][:2,FLAGS].  The token is the
\* pair (seconds, disambiguator) of gettimeseq (pid and host name are the
\* same for every name this process builds); an absent field is <<>>, a
\* present one <<value>>; fmd5 is "own" for the md5 of this folder's
\* visible name, "other" for another 32-digit hash, "none" when absent.
MkName(tok, uid, fmd5, info) ==
    [tok |-> tok, uid |-> uid, fmd5 |-> fmd5, info |-> info]

\* os.path.join(dir, name)
Path(dir, name) == [dir |-> dir, name |-> name]

PathOf(f) == Path(f.dir, f.name)

MkFile(p, content) == [dir |-> p.dir, name |-> p.name, content |-> content]

\* os.path.exists
Exists(files, p) == \E f \in files : PathOf(f) = p

FileAt(files, p) == CHOOSE f \in files : PathOf(f) = p

\* os.unlink of an existing file
Unlink(files, p) == {f \in files : PathOf(f) # p}

\* os.rename of an existing file: the destination is replaced.
Rename(files, old, new) ==
    {f \in files : PathOf(f) # old /\ PathOf(f) # new}
        \cup {MkFile(new, FileAt(files, old).content)}

\* os.link of an existing file to a name that does not exist yet
Link(files, old, new) == files \cup {MkFile(new, FileAt(files, old).content)}

\* open(path, "wt"); write(content); close(): creates or truncates.
WriteFile(files, p, content) ==
    {f \in files : PathOf(f) # p} \cup {MkFile(p, content)}

\* dict[key] = value
Put(d, key, value) ==
    [k \in DOMAIN d \cup {key} |-> IF k = key THEN value ELSE d[k]]

\* del dict[key]
Del(d, key) == [k \in DOMAIN d \ {key} |-> d[k]]

\* What the worker's last call was and did: the method, its arguments, how
\* it ended ("ok" or "error", an exception), the value it returned (the uid
\* for savemessage, the content for getmessage) and the file system calls
\* it made, in order.
MkOp(op, uid, flags, content, ret, val, data, log) ==
    [op |-> op, uid |-> uid, flags |-> flags, content |-> content,
     ret |-> ret, val |-> val, data |-> data, log |-> log]

NoOp == MkOp("none", 0, <<>>, <<>>, "ok", 0, <<>>, <<>>)

\* The folders of the three repositories; '.' is the separator of each.
MoveFolders == {"A", "B"}

\* The state of the repositories when no syncmoves is modelled.
NoMoves ==
    /\ markers = <<>>
    /\ mv = {}
    /\ runpc = "idle"
    /\ remote = [f \in MoveFolders |-> {}]
    /\ rexpunge = [f \in MoveFolders |-> TRUE]
    /\ localuids = [f \in MoveFolders |-> {}]
    /\ status = [f \in MoveFolders |-> <<>>]
    /\ saved = [f \in MoveFolders |-> <<>>]
    /\ dirty = {}
    /\ deletecounter = 0
    /\ processed = 0
    /\ bulk = 0
    /\ replayed = {}
    /\ runs = 0
    /\ foldercache = {}
    /\ calls = <<>>
    /\ lastmove = [id |-> 0, outcome |-> "none"]

\* No call of a repository method yet.
NoRepoOp ==
    [op |-> "none", name |-> <<>>, ret |-> "ok", found |-> {}, fresh |-> FALSE,
     before |-> [op |-> "none", name |-> <<>>, ret |-> "ok"]]

\* A repository that is not looked at: only its root directory exists.
NoRepo ==
    /\ rdirs = {<<>>}
    /\ rfiles = {}
    /\ folders = <<>>
    /\ sep = "."
    /\ dryrun = FALSE
    /\ lastrepo = NoRepoOp
    /\ makes = 0

\* No savemessage under way.
IdleSave ==
    [pc |-> "idle", uid |-> 0, content |-> <<>>, flags |-> <<>>,
     name |-> MkName(<<0, 0>>, <<>>, "none", <<>>)]

\* The process has not been killed in a savemessage.
NoCrash == [pc |-> "none", uid |-> 0]

\* ============================================================ gettimeseq
Threads == 1..NThreads

\* timelock is free (0) or held by a thread.
LockIsFree == timelock = 0

\* No mutual exclusion at all: what gettimeseq would be without timelock.
LockIgnored == TRUE

\* timelock.acquire() blocks until the lock is free.
CanAcquire == LockIsFree

\* long(time.time()) at a clock that shows `t`, the globals being lt, ts:
\* the new globals and the pair returned.
gettimeseq(t, lt, ts) ==
    IF t = lt
    THEN [lasttime |-> lt, timeseq |-> ts + 1, ret |-> <<t, ts + 1>>]
    ELSE [lasttime |-> t, timeseq |-> 0, ret |-> <<t, 0>>]

\* The clock never goes backwards.
Tick ==
    /\ now < MaxTime
    /\ now' = now + 1
    /\ UNCHANGED <<lasttime, timeseq, timelock, pc, thistime, issued>>
    /\ UNCHANGED <<foldervars, crashvars, movevars, repovars>>

\* A thread enters gettimeseq.
Call(t) ==
    /\ pc[t] = "idle"
    /\ Len(issued) + Cardinality({u \in Threads : pc[u] # "idle"}) < MaxCalls
    /\ pc' = [pc EXCEPT ![t] = "acquire"]
    /\ UNCHANGED <<now, lasttime, timeseq, timelock, thistime, issued>>
    /\ UNCHANGED <<foldervars, crashvars, movevars, repovars>>

\* timelock.acquire()
Acquire(t) ==
    /\ pc[t] = "acquire"
    /\ CanAcquire
    /\ timelock' = t
    /\ pc' = [pc EXCEPT ![t] = "readtime"]
    /\ UNCHANGED <<now, lasttime, timeseq, thistime, issued>>
    /\ UNCHANGED <<foldervars, crashvars, movevars, repovars>>

\* thistime = long(time.time())
ReadTime(t) ==
    /\ pc[t] = "readtime"
    /\ thistime' = [thistime EXCEPT ![t] = now]
    /\ pc' = [pc EXCEPT ![t] = "compare"]
    /\ UNCHANGED <<now, lasttime, timeseq, timelock, issued>>
    /\ UNCHANGED <<foldervars, crashvars, movevars, repovars>>

\* if thistime == lasttime
Compare(t) ==
    /\ pc[t] = "compare"
    /\ pc' = [pc EXCEPT ![t] = IF thistime[t] = lasttime THEN "inc" ELSE "reset"]
    /\ UNCHANGED <<now, lasttime, timeseq, timelock, thistime, issued>>
    /\ UNCHANGED <<foldervars, crashvars, movevars, repovars>>

\* timeseq += 1; return (thistime, timeseq)
Inc(t) ==
    /\ pc[t] = "inc"
    /\ timeseq' = timeseq + 1
    /\ issued' = Append(issued, [thread |-> t, pair |-> <<thistime[t], timeseq + 1>>])
    /\ pc' = [pc EXCEPT ![t] = "release"]
    /\ UNCHANGED <<now, lasttime, timelock, thistime>>
    /\ UNCHANGED <<foldervars, crashvars, movevars, repovars>>

\* lasttime = thistime; timeseq = 0; return (thistime, timeseq)
Reset(t) ==
    /\ pc[t] = "reset"
    /\ lasttime' = thistime[t]
    /\ timeseq' = 0
    /\ issued' = Append(issued, [thread |-> t, pair |-> <<thistime[t], 0>>])
    /\ pc' = [pc EXCEPT ![t] = "release"]
    /\ UNCHANGED <<now, timelock, thistime>>
    /\ UNCHANGED <<foldervars, crashvars, movevars, repovars>>

\* finally: timelock.release()
Release(t) ==
    /\ pc[t] = "release"
    /\ timelock' = IF timelock = t THEN 0 ELSE timelock
    /\ pc' = [pc EXCEPT ![t] = "idle"]
    /\ UNCHANGED <<now, lasttime, timeseq, thistime, issued>>
    /\ UNCHANGED <<foldervars, crashvars, movevars, repovars>>

InitSeq ==
    /\ now = 1
    /\ lasttime = 0
    /\ timeseq = 0
    /\ timelock = 0
    /\ pc = [t \in Threads |-> "idle"]
    /\ thistime = [t \in Threads |-> 0]
    /\ issued = <<>>
    /\ fs = {}
    /\ messagelist = <<>>
    /\ listcached = FALSE
    /\ lastop = NoOp
    /\ extsteps = 0
    /\ save = IdleSave
    /\ crash = NoCrash
    /\ base = {}
    /\ NoMoves
    /\ NoRepo

NextSeq ==
    \/ Tick
    \/ \E t \in Threads : Call(t)
    \/ \E t \in Threads : Acquire(t)
    \/ \E t \in Threads : ReadTime(t)
    \/ \E t \in Threads : Compare(t)
    \/ \E t \in Threads : Inc(t)
    \/ \E t \in Threads : Reset(t)
    \/ \E t \in Threads : Release(t)

SpecSeq == InitSeq /\ [][NextSeq]_vars

\* C1: whatever the interleaving of the callers, and the clock never going
\* backwards, no two calls of gettimeseq return the same (seconds,
\* disambiguator) pair; within one second the disambiguators strictly
\* increase in the order the calls take the lock, and the first call of a
\* second returns disambiguator 0.
C1_DistinctPairs ==
    /\ \A i, j \in 1..Len(issued) :
          i < j => issued[i].pair # issued[j].pair
    /\ \A i, j \in 1..Len(issued) :
          (i < j /\ issued[i].pair[1] = issued[j].pair[1])
              => issued[i].pair[2] < issued[j].pair[2]
    /\ \A i \in 1..Len(issued) :
          (i = 1 \/ issued[i - 1].pair[1] # issued[i].pair[1])
              => issued[i].pair[2] = 0

\* Two threads were served in the same second, then one in a later second.
C1_Witness ==
    /\ Len(issued) >= 3
    /\ issued[1].thread # issued[2].thread
    /\ issued[1].pair[1] = issued[2].pair[1]
    /\ issued[3].pair[1] > issued[2].pair[1]

\* ============================================================ MaildirFolder
\* Message ids the worker passes: a placeholder and a real id.
Uids == {0 - 1, 0}

\* Flag lists the worker passes: a caller's list has no repeated code but
\* need not be sorted.
FlagArgs == {<<>>, <<FlagS, FlagF>>}

\* Message bodies the worker passes.
Contents == {<<CR, LF, LetterA>>, <<CR, CR, LF>>}

\* The list left as it was found.
KeepOrder(flags) == flags

\* flags.sort()
SortFlags(flags) == SortSeq(flags, LAMBDA a, b : a < b)

\* 'S' in flags
HasSeen(flags) == \E i \in 1..Len(flags) : flags[i] = FlagS

\* Every message goes to new, seen or not.
DestDirNew(flags) == "new"

\* A message that has been seen goes into cur, any other into new.
DestDir(flags) == IF HasSeen(flags) THEN "cur" ELSE "new"

\* foldermatchre.search(messagename)
FolderMatch(name) == name.fmd5 # "none"

\* md5.new(self.getvisiblename()).hexdigest() == foldermatch.group(1)
OwnFolder(name) == name.fmd5 = "own"

\* uidmatchre.search(messagename)
UidMatch(name) == name.uid # <<>>

\* flagmatchre.search(messagename): ':.*2,([A-Z]+)' needs one flag at least.
FlagMatch(name) == name.info # <<>> /\ name.info[1] # <<>>

\* A cache record.
MkRecord(uid, flags, filename) ==
    [uid |-> uid, flags |-> flags, filename |-> filename]

\* The orders in which os.listdir may return the entries of a directory.
Orders(S) ==
    {o \in [1..Cardinality(S) -> S] :
        \A i, j \in 1..Cardinality(S) : i # j => o[i] # o[j]}

InDir(files, dir) == {PathOf(f) : f \in {g \in files : g.dir = dir}}

\* files.extend(...) for new, then for cur
Listings(files) ==
    {a \o b : a \in Orders(InDir(files, "new")), b \in Orders(InDir(files, "cur"))}

\* The uid in the name is taken whatever folder the name comes from.
ScanUidAnyFolder(name, nouidcounter) ==
    IF ~UidMatch(name) THEN nouidcounter ELSE name.uid[1]

\* The uid of one file, given the placeholder counter.
ScanUid(name, nouidcounter) ==
    IF (~FolderMatch(name)) \/ ~OwnFolder(name)
    THEN nouidcounter
    ELSE IF ~UidMatch(name) THEN nouidcounter ELSE name.uid[1]

\* The flags of one file.
ScanFlags(name) == IF FlagMatch(name) THEN SortFlags(name.info[1]) ELSE <<>>

\* The loop of _scanfolder with a placeholder counter that never moves.
RECURSIVE ScanFilesSameCounter(_, _, _)
ScanFilesSameCounter(files, retval, nouidcounter) ==
    IF files = <<>>
    THEN retval
    ELSE LET file == Head(files)
             uid == ScanUid(file.name, nouidcounter)
         IN  ScanFilesSameCounter(Tail(files),
                       Put(retval, uid,
                           MkRecord(uid, ScanFlags(file.name), file)),
                       nouidcounter)

\* The loop of _scanfolder over the listed files.
RECURSIVE ScanFiles(_, _, _)
ScanFiles(files, retval, nouidcounter) ==
    IF files = <<>>
    THEN retval
    ELSE LET file == Head(files)
             uid == ScanUid(file.name, nouidcounter)
         IN  ScanFiles(Tail(files),
                       Put(retval, uid,
                           MkRecord(uid, ScanFlags(file.name), file)),
                       IF uid = nouidcounter
                       THEN nouidcounter - 1
                       ELSE nouidcounter)

\* _scanfolder, os.listdir having returned `listing`
ScanFolder(listing) == ScanFiles(listing, <<>>, 0 - 1)

\* Every CR dropped, before an LF or not.
DropEveryCR(s) == SelectSeq(s, LAMBDA c : c # CR)

\* retval.replace("\r\n", "\n")
RECURSIVE ReplaceCRLF(_)
ReplaceCRLF(s) ==
    IF s = <<>>
    THEN <<>>
    ELSE IF Len(s) >= 2 /\ s[1] = CR /\ s[2] = LF
         THEN <<LF>> \o ReplaceCRLF(SubSeq(s, 3, Len(s)))
         ELSE <<s[1]>> \o ReplaceCRLF(Tail(s))

\* The name savemessageflags computes: the info string stripped of
\* '2,FLAGS', then '2,' and the sorted flags appended.
FlagName(name, flags) == [name EXCEPT !.info = <<SortFlags(flags)>>]

\* savemessageflags without the comparison of the two names: it renames
\* and rewrites the record every time.
savemessageflagsAlways(files, ml, uid, flags) ==
    LET oldfilename == ml[uid].filename
        newfilename == Path(DestDir(flags), FlagName(oldfilename.name, flags))
    IN  IF ~Exists(files, oldfilename)
        THEN [fs |-> files, ml |-> ml, ret |-> "error",
              log |-> <<"rename failed">>]
        ELSE [fs |-> Rename(files, oldfilename, newfilename),
              ml |-> [ml EXCEPT ![uid].flags = SortFlags(flags),
                                ![uid].filename = newfilename],
              ret |-> "ok", log |-> <<"rename">>]

\* savemessageflags that renames the file and leaves the record as it was.
savemessageflagsStaleRecord(files, ml, uid, flags) ==
    LET oldfilename == ml[uid].filename
        newfilename == Path(DestDir(flags), FlagName(oldfilename.name, flags))
    IN  IF newfilename = oldfilename
        THEN [fs |-> files, ml |-> ml, ret |-> "ok", log |-> <<>>]
        ELSE IF ~Exists(files, oldfilename)
        THEN [fs |-> files, ml |-> ml, ret |-> "error",
              log |-> <<"rename failed">>]
        ELSE [fs |-> Rename(files, oldfilename, newfilename),
              ml |-> ml, ret |-> "ok", log |-> <<"rename">>]

\* savemessageflags on the files and the cache given: the files and cache
\* after it, how it ended and the system calls made.
savemessageflags(files, ml, uid, flags) ==
    LET oldfilename == ml[uid].filename
        newfilename == Path(DestDir(flags), FlagName(oldfilename.name, flags))
    IN  IF newfilename = oldfilename
        THEN [fs |-> files, ml |-> ml, ret |-> "ok", log |-> <<>>]
        ELSE IF ~Exists(files, oldfilename)
        THEN [fs |-> files, ml |-> ml, ret |-> "error",
              log |-> <<"rename failed">>]
        ELSE [fs |-> Rename(files, oldfilename, newfilename),
              ml |-> [ml EXCEPT ![uid].flags = SortFlags(flags),
                                ![uid].filename = newfilename],
              ret |-> "ok", log |-> <<"rename">>]

\* The test off by one: uid -1 is taken for a real id.
IsPlaceholderOffByOne(uid) == uid < 0 - 1

\* if uid < 0: return uid
IsPlaceholder(uid) == uid < 0

\* The staging name: messagename.split(',')[0]
TmpName(messagename) == MkName(messagename.tok, <<>>, "none", <<>>)

\* The loop of savemessage that picks messagename: the clock shows t and
\* the generator's globals are lt, ts; a name found in tmp costs a sleep
\* of two seconds and an attempt.
RECURSIVE PickName(_, _, _, _, _, _)
PickName(files, uid, attempts, t, lt, ts) ==
    LET g == gettimeseq(t, lt, ts)
        messagename == MkName(g.ret, <<uid>>, "own", <<>>)
    IN  IF attempts > 15
        THEN [ok |-> FALSE, now |-> t, lasttime |-> lt, timeseq |-> ts,
              name |-> messagename]
        ELSE IF Exists(files, Path("tmp", messagename))
        THEN PickName(files, uid, attempts + 1, t + 2, g.lasttime, g.timeseq)
        ELSE [ok |-> TRUE, now |-> t, lasttime |-> g.lasttime,
              timeseq |-> g.timeseq, name |-> messagename]

\* savemessage of a uid that is not in the cache, from the write of the
\* staging file on: the files and cache after it, how it ended, the calls.
SaveNew(files, ml, uid, content, flags, messagename) ==
    LET tmp == Path("tmp", TmpName(messagename))
        new == Path(DestDir(flags), messagename)
        fs1 == WriteFile(files, tmp, content)
        fs3 == Unlink(Link(fs1, tmp, new), tmp)
        ml1 == Put(ml, uid, MkRecord(uid, <<>>, new))
        r == savemessageflags(fs3, ml1, uid, flags)
    IN  IF Exists(fs1, new)
        THEN [fs |-> fs1, ml |-> ml, ret |-> "error",
              log |-> <<"write", "link failed">>]
        ELSE [fs |-> r.fs, ml |-> r.ml, ret |-> r.ret,
              log |-> <<"write", "link", "unlink">> \o r.log]

\* cachemessagelist()
CacheMessageList ==
    /\ \E listing \in Listings(fs) :
          messagelist' = ScanFolder(listing)
    /\ listcached' = TRUE
    /\ lastop' = MkOp("rescan", 0, <<>>, <<>>, "ok", 0, <<>>, <<"listdir">>)
    /\ UNCHANGED <<fs, extsteps, seqvars, crashvars, movevars, repovars>>

\* The call before was a savemessage that wrote a new message `uid`.
JustSaved(uid) ==
    /\ lastop.op = "save"
    /\ lastop.uid = uid
    /\ lastop.ret = "ok"
    /\ lastop.log # <<>>
    /\ lastop.log[1] = "write"

\* getmessage(uid): a uid that is not cached is a KeyError, a file that is
\* gone an IOError.  The record of the call keeps, in `content`, what the
\* call before saved under this uid, if it did.
GetMessage(uid) ==
    /\ listcached
    /\ IF uid \in DOMAIN messagelist /\ Exists(fs, messagelist[uid].filename)
       THEN lastop' = MkOp("read", uid, <<>>,
                IF JustSaved(uid) THEN lastop.content ELSE <<>>, "ok", 0,
                ReplaceCRLF(FileAt(fs, messagelist[uid].filename).content),
                <<"read">>)
       ELSE lastop' = MkOp("read", uid, <<>>,
                IF JustSaved(uid) THEN lastop.content ELSE <<>>, "error", 0,
                <<>>, <<>>)
    /\ UNCHANGED <<fs, messagelist, listcached, extsteps, seqvars, crashvars, movevars, repovars>>

\* savemessage(uid, content, flags)
SaveMessage(uid, content, flags) ==
    /\ listcached
    /\ IF IsPlaceholder(uid)
       THEN /\ lastop' = MkOp("save", uid, <<>>, <<>>, "ok", uid, <<>>, <<>>)
            /\ UNCHANGED <<fs, messagelist, now, lasttime, timeseq>>
       ELSE IF uid \in DOMAIN messagelist
       THEN LET r == savemessageflags(fs, messagelist, uid, flags)
            IN  /\ fs' = r.fs
                /\ messagelist' = r.ml
                /\ lastop' = MkOp("save", uid, flags, <<>>, r.ret, uid,
                                  <<>>, r.log)
                /\ UNCHANGED <<now, lasttime, timeseq>>
       ELSE LET n == PickName(fs, uid, 0, now, lasttime, timeseq)
                r == SaveNew(fs, messagelist, uid, content, flags, n.name)
            IN  /\ Cardinality(fs) < MaxFiles
                /\ n.now <= MaxTime
                /\ n.timeseq <= MaxSeq
                /\ now' = n.now
                /\ lasttime' = n.lasttime
                /\ timeseq' = n.timeseq
                /\ IF n.ok
                   THEN /\ fs' = r.fs
                        /\ messagelist' = r.ml
                        /\ lastop' = MkOp("save", uid, flags, content,
                                          r.ret, uid, <<>>, r.log)
                   ELSE /\ lastop' = MkOp("save", uid, flags, content,
                                          "error", uid, <<>>, <<>>)
                        /\ UNCHANGED <<fs, messagelist>>
    /\ UNCHANGED <<listcached, extsteps, timelock, pc, thistime, issued, crashvars, movevars, repovars>>

\* savemessageflags(uid, flags); a uid that is not cached is a KeyError.
SaveMessageFlags(uid, flags) ==
    /\ listcached
    /\ IF uid \in DOMAIN messagelist
       THEN LET r == savemessageflags(fs, messagelist, uid, flags)
            IN  /\ fs' = r.fs
                /\ messagelist' = r.ml
                /\ lastop' = MkOp("setflags", uid, flags, <<>>, r.ret, 0,
                                  <<>>, r.log)
       ELSE /\ lastop' = MkOp("setflags", uid, flags, <<>>, "error", 0,
                              <<>>, <<>>)
            /\ UNCHANGED <<fs, messagelist>>
    /\ UNCHANGED <<listcached, extsteps, seqvars, crashvars, movevars, repovars>>

\* The except branch with the failure of the retried unlink swallowed.
DeleteRetrySwallow(files, ml, uid, listing, denied) ==
    [fs |-> files, ml |-> Del(ml, uid), ret |-> "ok",
     log |-> IF uid \in DOMAIN ScanFolder(listing)
             THEN <<"unlink failed", "listdir", "unlink failed">>
             ELSE <<"unlink failed", "listdir">>]

\* The except branch of deletemessage: the first unlink has failed.  The
\* retried unlink fails when `denied` (it raises OSError again).
DeleteRetry(files, ml, uid, listing, denied) ==
    LET newmsglist == ScanFolder(listing)
    IN  IF uid \in DOMAIN newmsglist
        THEN IF denied
             THEN [fs |-> files, ml |-> ml, ret |-> "error",
                   log |-> <<"unlink failed", "listdir", "unlink failed">>]
             ELSE [fs |-> Unlink(files, newmsglist[uid].filename),
                   ml |-> Del(ml, uid), ret |-> "ok",
                   log |-> <<"unlink failed", "listdir", "unlink">>]
        ELSE [fs |-> files, ml |-> Del(ml, uid), ret |-> "ok",
              log |-> <<"unlink failed", "listdir">>]

\* deletemessage(uid).  os.unlink raises OSError when the file is gone and
\* also when the system refuses the call (denied1 for the first unlink,
\* denied2 for the retried one).
DeleteMessage(uid, denied1, denied2) ==
    /\ listcached
    /\ IF uid \notin DOMAIN messagelist
       THEN /\ lastop' = MkOp("delete", uid, <<>>, <<>>, "ok", 0, <<>>, <<>>)
            /\ UNCHANGED <<fs, messagelist>>
       ELSE IF Exists(fs, messagelist[uid].filename) /\ ~denied1
       THEN /\ fs' = Unlink(fs, messagelist[uid].filename)
            /\ messagelist' = Del(messagelist, uid)
            /\ lastop' = MkOp("delete", uid, <<>>, <<>>, "ok", 0, <<>>,
                              <<"unlink">>)
       ELSE \E listing \in Listings(fs) :
              LET r == DeleteRetry(fs, messagelist, uid, listing, denied2)
              IN  /\ fs' = r.fs
                  /\ messagelist' = r.ml
                  /\ lastop' = MkOp("delete", uid, <<>>, <<>>, r.ret, 0,
                                    <<>>, r.log)
    /\ UNCHANGED <<listcached, extsteps, seqvars, crashvars, movevars, repovars>>

\* ------------------------------------------------- the other agent
\* Names under which another agent puts a file into the folder: a fresh
\* delivery and a copy of one of this folder's messages.
ExtNames ==
    {MkName(<<0, 0>>, <<>>, "none", <<>>),
     MkName(<<0, 1>>, <<0>>, "own", <<<<>>>>)}

\* Flag fields a mail client may write; it need not sort them nor keep
\* them free of repeats.
ExtInfos == {<<<<>>>>, <<<<FlagS, FlagF>>>>, <<<<FlagS, FlagS>>>>}

ExtOp == MkOp("ext", 0, <<>>, <<>>, "ok", 0, <<>>, <<>>)

\* A file appears in new or cur.
ExtDeliver(dir, name) ==
    /\ Cardinality(fs) < MaxFiles
    /\ ~Exists(fs, Path(dir, name))
    /\ fs' = fs \cup {MkFile(Path(dir, name), <<LetterA>>)}
    /\ lastop' = ExtOp
    /\ extsteps < MaxExt
    /\ extsteps' = extsteps + 1
    /\ UNCHANGED <<messagelist, listcached, seqvars, crashvars, movevars, repovars>>

\* A mail client moves a file between new and cur or rewrites its flags.
ExtRename(f, dir, info) ==
    /\ f.dir # "tmp"
    /\ Path(dir, [f.name EXCEPT !.info = info]) # PathOf(f)
    /\ fs' = Rename(fs, PathOf(f), Path(dir, [f.name EXCEPT !.info = info]))
    /\ lastop' = ExtOp
    /\ extsteps < MaxExt
    /\ extsteps' = extsteps + 1
    /\ UNCHANGED <<messagelist, listcached, seqvars, crashvars, movevars, repovars>>

\* A mail client removes a file.
ExtRemove(f) ==
    /\ fs' = fs \ {f}
    /\ lastop' = ExtOp
    /\ extsteps < MaxExt
    /\ extsteps' = extsteps + 1
    /\ UNCHANGED <<messagelist, listcached, seqvars, crashvars, movevars, repovars>>

Init ==
    /\ now = 1
    /\ lasttime = 0
    /\ timeseq = 0
    /\ timelock = 0
    /\ pc = [t \in Threads |-> "idle"]
    /\ thistime = [t \in Threads |-> 0]
    /\ issued = <<>>
    /\ fs = {}
    /\ messagelist = <<>>
    /\ listcached = FALSE
    /\ lastop = NoOp
    /\ extsteps = 0
    /\ save = IdleSave
    /\ crash = NoCrash
    /\ base = {}
    /\ NoMoves
    /\ NoRepo

Next ==
    \/ CacheMessageList
    \/ \E uid \in Uids : GetMessage(uid)
    \/ \E uid \in Uids, content \in Contents, flags \in FlagArgs :
          SaveMessage(uid, content, flags)
    \/ \E uid \in Uids, flags \in FlagArgs : SaveMessageFlags(uid, flags)
    \/ \E uid \in Uids, denied1, denied2 \in BOOLEAN :
          DeleteMessage(uid, denied1, denied2)
    \/ \E dir \in {"new", "cur"}, name \in ExtNames : ExtDeliver(dir, name)
    \/ \E f \in fs, dir \in {"new", "cur"}, info \in ExtInfos :
          ExtRename(f, dir, info)
    \/ \E f \in fs : ExtRemove(f)

Spec == Init /\ [][Next]_vars

\* ------------------------------------------------- claims on Spec
\* The set of the codes of a flag list.
FlagSet(flags) == {flags[i] : i \in 1..Len(flags)}

\* The record's file lies where its flags say: in cur exactly when 'S' is
\* among them, under a name whose flag field is ':2,' and these flags.
Canonical(rec) ==
    /\ rec.filename.dir = (IF FlagS \in FlagSet(rec.flags) THEN "cur" ELSE "new")
    /\ rec.filename.name.info = <<rec.flags>>

\* The step is savemessageflags(uid, F) with F, sorted, the flags the cache
\* holds for uid.
SetHeldFlagsStep ==
    /\ lastop'.op = "setflags"
    /\ lastop'.uid \in DOMAIN messagelist
    /\ \A c \in FlagCodes :
          Cardinality({i \in 1..Len(lastop'.flags) : lastop'.flags[i] = c})
            = Cardinality({i \in 1..Len(messagelist[lastop'.uid].flags) :
                              messagelist[lastop'.uid].flags[i] = c})

\* C5 as stated: setFlags(id, F) with F the flags held in the cache record
\* of id is a no-op: no rename on disk, location and flags unchanged.
C5_Original ==
    [][SetHeldFlagsStep =>
          /\ fs' = fs
          /\ messagelist' = messagelist
          /\ lastop'.log = <<>>]_vars

\* C5, amended: setFlags(id, F) with F the flags held in the cache record
\* of id is a no-op (no rename, record unchanged) when the record's file
\* already lies in the directory these flags call for, under a name whose
\* flag field is exactly these flags.
C5_HeldFlagsNoOp ==
    [][(SetHeldFlagsStep /\ Canonical(messagelist[lastop'.uid])) =>
          /\ fs' = fs
          /\ messagelist' = messagelist
          /\ lastop'.ret = "ok"
          /\ lastop'.log = <<>>]_vars

\* savemessageflags with the held flags has just returned without a rename,
\* the message being a seen one in cur.
C5_Witness ==
    /\ lastop.op = "setflags"
    /\ lastop.ret = "ok"
    /\ lastop.log = <<>>
    /\ lastop.uid \in DOMAIN messagelist
    /\ FlagSet(lastop.flags) = FlagSet(messagelist[lastop.uid].flags)
    /\ FlagS \in FlagSet(lastop.flags)
    /\ Exists(fs, messagelist[lastop.uid].filename)

\* C6 as stated: delete(id) on a cached id always ends with the record
\* removed from the cache, also when the retried unlink fails.
C6_Original ==
    [][(lastop'.op = "delete" /\ lastop'.uid \in DOMAIN messagelist) =>
          lastop'.uid \notin DOMAIN messagelist']_vars

\* C6, amended: delete(id) on a cached id removes the record whenever it
\* returns normally; when the first unlink fails it rescans once and
\* retries the unlink once at the rescanned location; when that retried
\* unlink fails too, the error reaches the caller and the record stays.
C6_DeleteRemovesRecord ==
    [][(lastop'.op = "delete" /\ lastop'.uid \in DOMAIN messagelist) =>
          IF lastop'.log = <<"unlink failed", "listdir", "unlink failed">>
          THEN /\ lastop'.ret = "error"
               /\ messagelist' = messagelist
               /\ fs' = fs
          ELSE /\ lastop'.ret = "ok"
               /\ lastop'.uid \notin DOMAIN messagelist'
               /\ \/ lastop'.log = <<"unlink">>
                  \/ lastop'.log = <<"unlink failed", "listdir">>
                  \/ lastop'.log = <<"unlink failed", "listdir", "unlink">>]_vars

\* The retried unlink of a delete has failed: the record is still cached.
C6_Witness ==
    /\ lastop.op = "delete"
    /\ lastop.log = <<"unlink failed", "listdir", "unlink failed">>
    /\ lastop.uid \in DOMAIN messagelist

\* C9: save(id, content, flags) with a negative id returns id and changes
\* nothing: no file is created, renamed or removed and the cache is as it
\* was.
C9_PlaceholderSaveNoOp ==
    [][(lastop'.op = "save" /\ lastop'.uid < 0) =>
          /\ fs' = fs
          /\ messagelist' = messagelist
          /\ lastop'.ret = "ok"
          /\ lastop'.val = lastop'.uid
          /\ lastop'.log = <<>>]_vars

\* A save with a placeholder id has returned, the folder holding a file
\* and the cache not holding that id.
C9_Witness ==
    /\ lastop.op = "save"
    /\ lastop.uid < 0
    /\ lastop.uid \notin DOMAIN messagelist
    /\ fs # {}

\* s without every CR that stands right before an LF.
WithoutCRBeforeLF(s) ==
    LET keep == {i \in 1..Len(s) :
                    ~(s[i] = CR /\ i < Len(s) /\ s[i + 1] = LF)}
    IN  [k \in 1..Cardinality(keep) |->
            s[CHOOSE i \in keep : Cardinality({j \in keep : j <= i}) = k]]

\* C10: save(id, content, flags) of a non-negative id that is not cached
\* returns id, and the read(id) that follows returns the content with each
\* CR LF replaced by LF.
C10_SaveThenRead ==
    [][/\ (lastop'.op = "save" /\ lastop'.ret = "ok") =>
              lastop'.val = lastop'.uid
       /\ (JustSaved(lastop'.uid) /\ lastop'.op = "read") =>
              /\ lastop'.ret = "ok"
              /\ lastop'.data = WithoutCRBeforeLF(lastop.content)]_vars

\* A read has followed the save of a body in which a CR stands before a
\* CR LF.
C10_Witness ==
    /\ lastop.op = "read"
    /\ lastop.content = <<CR, CR, LF>>
    /\ lastop.ret = "ok"

\* The step is savemessageflags(uid, F), or savemessage(uid, content, F) of
\* a uid that was not cached, returning normally.
FlagCall ==
    /\ lastop'.ret = "ok"
    /\ \/ lastop'.op = "setflags"
       \/ /\ lastop'.op = "save"
          /\ lastop'.log # <<>>
          /\ lastop'.log[1] = "write"

\* Two paths name the same message file: the names differ in the flag
\* field at most.
SameMessage(p, q) ==
    /\ p.name.tok = q.name.tok
    /\ p.name.uid = q.name.uid
    /\ p.name.fmd5 = q.name.fmd5

\* The record of uid holds the flags F, sorted, and names a path in cur
\* when 'S' is in F and in new otherwise, the flag field being F, sorted.
RecordFollows(ml, uid, F) ==
    /\ uid \in DOMAIN ml
    /\ ml[uid].flags = SortSeq(F, LAMBDA a, b : a < b)
    /\ ml[uid].filename.dir = (IF FlagS \in FlagSet(F) THEN "cur" ELSE "new")
    /\ ml[uid].filename.name.info = <<ml[uid].flags>>

\* C21 as stated: after setFlags(id, F), or save of a new id with flags F,
\* returns normally, the record of id holds F sorted and a location in cur
\* when S is in F and in new otherwise; the file exists at that location
\* and at no other place of the folder.
C21_Original ==
    [][FlagCall =>
          /\ RecordFollows(messagelist', lastop'.uid, lastop'.flags)
          /\ Exists(fs', messagelist'[lastop'.uid].filename)
          /\ \A f \in fs' :
                SameMessage(PathOf(f), messagelist'[lastop'.uid].filename)
                    => PathOf(f) = messagelist'[lastop'.uid].filename]_vars

\* C21, amended: after such a call the record of id holds F sorted and a
\* location in cur when S is in F and in new otherwise, never in tmp.
\* When the call has renamed or written the file, the file exists at that
\* location and no longer at the place it was renamed from (nor in tmp,
\* for a save).  When the name computed is the name recorded, the call
\* makes no system call: the file is at the location only if it was there
\* before, which another agent may have undone.
C21_FlagsAndLocation ==
    [][FlagCall =>
          LET uid == lastop'.uid
              rec == messagelist'[uid]
          IN  /\ RecordFollows(messagelist', uid, lastop'.flags)
              /\ rec.filename.dir # "tmp"
              /\ IF lastop'.log = <<>>
                 THEN /\ fs' = fs
                      /\ messagelist' = messagelist
                 ELSE /\ Exists(fs', rec.filename)
                      /\ lastop'.op = "setflags" =>
                            /\ lastop'.log = <<"rename">>
                            /\ Exists(fs, messagelist[uid].filename)
                            /\ messagelist[uid].filename # rec.filename
                            /\ ~Exists(fs', messagelist[uid].filename)
                      /\ lastop'.op = "save" =>
                            /\ uid \notin DOMAIN messagelist
                            /\ \A f \in fs' :
                                  f.name.tok = rec.filename.name.tok
                                      => PathOf(f) = rec.filename]_vars

\* savemessageflags has just moved a message from new to cur: the record
\* holds the flags F,S and the file is in cur, the record before being one
\* without flags in new.
C21_Witness ==
    /\ lastop.op = "setflags"
    /\ lastop.ret = "ok"
    /\ lastop.log = <<"rename">>
    /\ lastop.flags = <<FlagS, FlagF>>
    /\ lastop.uid \in DOMAIN messagelist
    /\ messagelist[lastop.uid].flags = <<FlagF, FlagS>>
    /\ messagelist[lastop.uid].filename.dir = "cur"
    /\ Exists(fs, messagelist[lastop.uid].filename)
    /\ \A f \in fs : f.dir # "new"

\* ============================================================ SpecScan
\* A folder found with any files in new and cur, and scanned.
\* Names found in a folder: deliveries without uid and fingerprint (one
\* with unsorted flags), messages of this folder (two of them with the same
\* uid, one with a repeated flag), a message that came from another
\* folder, and a message of this folder without a uid.
ScanNames ==
    {MkName(<<0, 0>>, <<>>, "none", <<>>),
     MkName(<<0, 1>>, <<>>, "none", <<<<FlagS, FlagF>>>>),
     MkName(<<0, 2>>, <<0>>, "own", <<<<FlagS, FlagS>>>>),
     MkName(<<0, 3>>, <<0>>, "own", <<<<FlagS>>>>),
     MkName(<<0, 4>>, <<1>>, "own", <<<<>>>>),
     MkName(<<0, 5>>, <<1>>, "other", <<<<FlagF>>>>),
     MkName(<<0, 6>>, <<>>, "own", <<>>)}

FoundFiles ==
    {MkFile(Path(dir, name), <<LetterA>>) : dir \in {"new", "cur"}, name \in ScanNames}

\* The sets of at most n found files.
RECURSIVE DirsUpTo(_)
DirsUpTo(n) ==
    IF n = 0
    THEN {{}}
    ELSE LET smaller == DirsUpTo(n - 1)
         IN  smaller \cup {d \cup {f} : d \in smaller, f \in FoundFiles}

InitScan ==
    /\ now = 1
    /\ lasttime = 0
    /\ timeseq = 0
    /\ timelock = 0
    /\ pc = [t \in Threads |-> "idle"]
    /\ thistime = [t \in Threads |-> 0]
    /\ issued = <<>>
    /\ fs \in DirsUpTo(MaxListed)
    /\ messagelist = <<>>
    /\ listcached = FALSE
    /\ lastop = NoOp
    /\ extsteps = 0
    /\ save = IdleSave
    /\ crash = NoCrash
    /\ base = {}
    /\ NoMoves
    /\ NoRepo

NextScan == CacheMessageList

SpecScan == InitScan /\ [][NextScan]_vars

\* The files of new and cur.
Visible == {PathOf(f) : f \in {g \in fs : g.dir \in {"new", "cur"}}}

HasRecord(p) == \E u \in DOMAIN messagelist : messagelist[u].filename = p

\* The name carries this folder's fingerprint and a uid.
CarriesOwnUid(p) == p.name.fmd5 = "own" /\ p.name.uid # <<>>

\* C7 as stated: after rescan() every file of new and cur is the location
\* of exactly one record, every record's location is one of these files,
\* and there are as many records as files.
C7_Original ==
    lastop.op = "rescan" =>
        /\ \A p \in Visible :
              Cardinality({u \in DOMAIN messagelist :
                              messagelist[u].filename = p}) = 1
        /\ \A u \in DOMAIN messagelist : messagelist[u].filename \in Visible
        /\ Cardinality(DOMAIN messagelist) = Cardinality(Visible)

\* C7, amended: after rescan() every record's location is a file of new or
\* cur and no file is the location of two records; a file is without a
\* record only when another file carries the same uid under this folder's
\* fingerprint and has the record; there are as many records as files
\* when no two files carry the same uid under this folder's fingerprint.
C7_ScanMirror ==
    lastop.op = "rescan" =>
        /\ \A u \in DOMAIN messagelist : messagelist[u].filename \in Visible
        /\ \A u, v \in DOMAIN messagelist :
              u # v => messagelist[u].filename # messagelist[v].filename
        /\ \A p \in Visible :
              ~HasRecord(p) =>
                  /\ CarriesOwnUid(p)
                  /\ \E q \in Visible \ {p} :
                        /\ CarriesOwnUid(q)
                        /\ q.name.uid = p.name.uid
                        /\ HasRecord(q)
        /\ (\A p, q \in Visible :
                (p # q /\ CarriesOwnUid(p) /\ CarriesOwnUid(q))
                    => p.name.uid # q.name.uid)
              => Cardinality(DOMAIN messagelist) = Cardinality(Visible)

\* A scan of three files, two of them with the same uid of this folder and
\* one foreign, has left two records.
C7_Witness ==
    /\ lastop.op = "rescan"
    /\ Cardinality(Visible) = 3
    /\ Cardinality(DOMAIN messagelist) = 2
    /\ \E u \in DOMAIN messagelist : u < 0

Ascending(flags) == \A i \in 1..(Len(flags) - 1) : flags[i] <= flags[i + 1]

StrictlyAscending(flags) == \A i \in 1..(Len(flags) - 1) : flags[i] < flags[i + 1]

\* How often code c stands in a flag list.
Count(flags, c) == Cardinality({i \in 1..Len(flags) : flags[i] = c})

\* The flag field of a name, empty when the name has none.
FlagField(name) == IF name.info = <<>> THEN <<>> ELSE name.info[1]

\* C8 as stated: after rescan() every id in the cache is unique and every
\* record's flag list is strictly ascending, without a repeated code.
C8_Original ==
    lastop.op = "rescan" =>
        \A u \in DOMAIN messagelist :
            /\ messagelist[u].uid = u
            /\ StrictlyAscending(messagelist[u].flags)

\* C8, amended: after rescan() every id in the cache is unique and every
\* record's flag list is in ascending order and holds each code as often
\* as the flag field of the file's name does: a code is repeated in the
\* record exactly when it is repeated in the name.
C8_ScanFlagsSorted ==
    lastop.op = "rescan" =>
        \A u \in DOMAIN messagelist :
            /\ messagelist[u].uid = u
            /\ \A v \in DOMAIN messagelist :
                  messagelist[v].uid = messagelist[u].uid => v = u
            /\ Ascending(messagelist[u].flags)
            /\ \A c \in FlagCodes :
                  Count(messagelist[u].flags, c)
                      = Count(FlagField(messagelist[u].filename.name), c)

\* A scan has read a name with unsorted flags and one with a repeated flag.
C8_Witness ==
    /\ lastop.op = "rescan"
    /\ \E u \in DOMAIN messagelist :
          FlagField(messagelist[u].filename.name) = <<FlagS, FlagF>>
    /\ \E u \in DOMAIN messagelist :
          messagelist[u].flags = <<FlagS, FlagS>>

\* The files of new and cur whose name lacks this folder's fingerprint or
\* a uid.
Strangers == {p \in Visible : ~CarriesOwnUid(p)}

\* C20: rescan() gives a file the id in its name if and only if the name
\* carries this folder's fingerprint and an id; every other file gets a
\* negative placeholder of its own, the placeholders of one scan being
\* -1, -2, ... without a gap and none given to two files.
C20_ScanIds ==
    lastop.op = "rescan" =>
        /\ \A u \in DOMAIN messagelist :
              LET p == messagelist[u].filename
              IN  /\ u >= 0 <=> CarriesOwnUid(p)
                  /\ u >= 0 => u = p.name.uid[1]
        /\ \A p \in Visible :
              CarriesOwnUid(p) =>
                  /\ p.name.uid[1] \in DOMAIN messagelist
                  /\ \A u \in DOMAIN messagelist :
                        messagelist[u].filename = p => u = p.name.uid[1]
        /\ \A p \in Strangers :
              Cardinality({u \in DOMAIN messagelist :
                              messagelist[u].filename = p}) = 1
        /\ {u \in DOMAIN messagelist : u < 0}
              = {0 - k : k \in 1..Cardinality(Strangers)}

\* A scan has met a file of another folder that carries a uid, a file of
\* this folder without a uid and a file of this folder with a uid.
C20_Witness ==
    /\ lastop.op = "rescan"
    /\ \E p \in Visible : p.name.fmd5 = "other" /\ p.name.uid # <<>>
    /\ \E p \in Visible : p.name.fmd5 = "own" /\ p.name.uid = <<>>
    /\ \E u \in DOMAIN messagelist : u >= 0
    /\ {u \in DOMAIN messagelist : u < 0} = {0 - 1, 0 - 2}

\* ============================================================ SpecCrash
\* savemessage of a uid that is not cached, one system call per step; the
\* process may be killed before any step and is then started again: the
\* module globals and the cache are those of a new process.

\* Ids of messages to save.
NewUids == {0, 1}

\* The content written straight into new or cur under messagename.
WriteTargetDirect(sv) == Path(DestDir(sv.flags), sv.name)

\* open(os.path.join(tmpdir, tmpmessagename), "wt")
WriteTarget(sv) == Path("tmp", TmpName(sv.name))

\* os.path.join(newdir, messagename)
LinkTarget(sv) == Path(DestDir(sv.flags), sv.name)

\* savemessage is entered with a uid that is neither negative nor cached.
SaveBegin(uid, content, flags) ==
    /\ save.pc = "idle"
    /\ listcached
    /\ ~IsPlaceholder(uid)
    /\ uid \notin DOMAIN messagelist
    /\ Cardinality(fs) < MaxFiles
    /\ save' = [pc |-> "name", uid |-> uid, content |-> content,
                flags |-> flags, name |-> IdleSave.name]
    /\ base' = {f \in fs : f.dir # "tmp"}
    /\ UNCHANGED <<crash, foldervars, seqvars, movevars, repovars>>

\* The loop that picks messagename.
SavePickName ==
    /\ save.pc = "name"
    /\ LET n == PickName(fs, save.uid, 0, now, lasttime, timeseq)
       IN  /\ n.now <= MaxTime
           /\ n.timeseq <= MaxSeq
           /\ now' = n.now
           /\ lasttime' = n.lasttime
           /\ timeseq' = n.timeseq
           /\ save' = IF n.ok
                      THEN [save EXCEPT !.pc = "open", !.name = n.name]
                      ELSE IdleSave
    /\ UNCHANGED <<timelock, pc, thistime, issued, crash, base, foldervars, movevars, repovars>>

\* file = open(..., "wt"): the file is created, or truncated, empty.
SaveOpen ==
    /\ save.pc = "open"
    /\ fs' = WriteFile(fs, WriteTarget(save), <<>>)
    /\ save' = [save EXCEPT !.pc = "write"]
    /\ UNCHANGED <<messagelist, listcached, lastop, extsteps, crash, base, seqvars, movevars, repovars>>

\* file.write(content); file.close()
SaveWrite ==
    /\ save.pc = "write"
    /\ fs' = WriteFile(fs, WriteTarget(save), save.content)
    /\ save' = [save EXCEPT !.pc = "link"]
    /\ UNCHANGED <<messagelist, listcached, lastop, extsteps, crash, base, seqvars, movevars, repovars>>

\* os.link(tmp, new); OSError when the name exists already.
SaveLink ==
    /\ save.pc = "link"
    /\ IF Exists(fs, LinkTarget(save))
       THEN /\ save' = IdleSave
            /\ fs' = fs
       ELSE /\ fs' = Link(fs, WriteTarget(save), LinkTarget(save))
            /\ save' = [save EXCEPT !.pc = "unlink"]
    /\ UNCHANGED <<messagelist, listcached, lastop, extsteps, crash, base, seqvars, movevars, repovars>>

\* os.unlink(tmp)
SaveUnlink ==
    /\ save.pc = "unlink"
    /\ fs' = Unlink(fs, Path("tmp", TmpName(save.name)))
    /\ save' = [save EXCEPT !.pc = "cache"]
    /\ UNCHANGED <<messagelist, listcached, lastop, extsteps, crash, base, seqvars, movevars, repovars>>

\* self.messagelist[uid] = {'uid': uid, 'flags': [], 'filename': ...}
SaveCache ==
    /\ save.pc = "cache"
    /\ messagelist' = Put(messagelist, save.uid,
                          MkRecord(save.uid, <<>>, LinkTarget(save)))
    /\ save' = [save EXCEPT !.pc = "flags"]
    /\ UNCHANGED <<fs, listcached, lastop, extsteps, crash, base, seqvars, movevars, repovars>>

\* self.savemessageflags(uid, flags); return uid
SaveFlags ==
    /\ save.pc = "flags"
    /\ LET r == savemessageflags(fs, messagelist, save.uid, save.flags)
       IN  /\ fs' = r.fs
           /\ messagelist' = r.ml
           /\ lastop' = MkOp("save", save.uid, save.flags, save.content,
                             r.ret, save.uid, <<>>,
                             <<"write", "link", "unlink">> \o r.log)
    /\ save' = IdleSave
    /\ UNCHANGED <<listcached, extsteps, crash, base, seqvars, movevars, repovars>>

\* The process is killed in savemessage and started again.  A kill between
\* open and close leaves of the content what had reached the file: any
\* prefix of it.
Kill ==
    /\ save.pc # "idle"
    /\ IF save.pc = "write"
       THEN \E n \in 0..Len(save.content) :
               fs' = WriteFile(fs, WriteTarget(save), SubSeq(save.content, 1, n))
       ELSE fs' = fs
    /\ crash' = [pc |-> save.pc, uid |-> save.uid]
    /\ save' = IdleSave
    /\ messagelist' = <<>>
    /\ listcached' = FALSE
    /\ lasttime' = 0
    /\ timeseq' = 0
    /\ lastop' = NoOp
    /\ UNCHANGED <<now, timelock, pc, thistime, issued, extsteps, base, movevars, repovars>>

\* cachemessagelist() between two calls of savemessage
CrashRescan ==
    /\ save.pc = "idle"
    /\ CacheMessageList

\* A second passes.
CrashTick ==
    /\ now < MaxTime
    /\ now' = now + 1
    /\ UNCHANGED <<lasttime, timeseq, timelock, pc, thistime, issued>>
    /\ UNCHANGED <<foldervars, crashvars, movevars, repovars>>

NextCrash ==
    \/ CrashRescan
    \/ CrashTick
    \/ \E uid \in NewUids, content \in Contents, flags \in FlagArgs :
          SaveBegin(uid, content, flags)
    \/ SavePickName
    \/ SaveOpen
    \/ SaveWrite
    \/ SaveLink
    \/ SaveUnlink
    \/ SaveCache
    \/ SaveFlags
    \/ Kill

SpecCrash == Init /\ [][NextCrash]_vars

\* The complete files of new and cur that carry uid under this folder's
\* fingerprint, and those that carry it with a content cut short.
VisibleCopies(uid) ==
    {f \in fs : /\ f.dir \in {"new", "cur"}
                /\ f.name.uid = <<uid>>
                /\ f.name.fmd5 = "own"}

Complete(f) == f.content \in Contents

\* Positions of savemessage before os.link has been made, and after.
BeforeLink == {"name", "open", "write", "link"}

AfterLink == {"unlink", "cache", "flags"}

C22_NoOverwrite ==
    [][(save.pc = "open" /\ save'.pc = "write") =>
          ~Exists(fs, WriteTarget(save))]_vars

\* ============================================================ SpecAlone
\* A folder found with any files in new and cur, and one worker calling
\* cachemessagelist, savemessage, savemessageflags and deletemessage with
\* ids that are not negative; nobody else touches the folder.  One message
\* body is enough: no call here looks at what a file holds.
NextAlone ==
    \/ CacheMessageList
    \/ \E uid \in NewUids, flags \in FlagArgs :
          SaveMessage(uid, <<LetterA>>, flags)
    \/ \E uid \in NewUids, flags \in FlagArgs : SaveMessageFlags(uid, flags)
    \/ \E uid \in NewUids, denied1, denied2 \in BOOLEAN :
          DeleteMessage(uid, denied1, denied2)

\* The folder is found with at most MaxFiles files.
InitAlone ==
    /\ InitScan
    /\ Cardinality(fs) <= MaxFiles

SpecAlone == InitAlone /\ [][NextAlone]_vars

\* The records of the ids that are not negative.
NonNegative(ml) == [u \in {v \in DOMAIN ml : v >= 0} |-> ml[u]]

\* The cache, for the ids that are not negative, is what a scan of the
\* folder as it is gives (for one of the orders in which the directories
\* may be listed): same ids, same flags, same locations, each an existing
\* file.
Mirror(files, ml) ==
    /\ \E listing \in Listings(files) :
          NonNegative(ml) = NonNegative(ScanFolder(listing))
    /\ \A u \in DOMAIN ml : u >= 0 => Exists(files, ml[u].filename)

\* No two files of new and cur carry the same uid under this folder's
\* fingerprint.
NoTwins(files) ==
    \A f, g \in files :
        (/\ f.dir # "tmp" /\ g.dir # "tmp"
         /\ f.name.fmd5 = "own" /\ g.name.fmd5 = "own"
         /\ f.name.uid # <<>> /\ f.name.uid = g.name.uid) => f = g

\* The step is a call of savemessage, savemessageflags or deletemessage
\* that returns normally.
CallReturns ==
    /\ lastop'.op \in {"save", "setflags", "delete"}
    /\ lastop'.ret = "ok"

\* C23 as stated: with the cache equal to a fresh scan (as it is after
\* rescan()), a call of save, setFlags or delete on a non-negative id that
\* returns normally leaves the cache, for the non-negative ids, equal to
\* what a fresh scan would give.
C23_Original ==
    [][(listcached /\ Mirror(fs, messagelist) /\ CallReturns) =>
          Mirror(fs', messagelist')]_vars

\* C23, amended: the same, for a folder in which no two files carry the
\* same id under this folder's fingerprint when rescan() is called: after
\* rescan() the cache equals a fresh scan, and every call that returns
\* normally keeps it so and brings no such pair of files about.
C23_CacheMirrorsFolder ==
    [][/\ lastop'.op = "rescan" => Mirror(fs', messagelist')
       /\ (listcached /\ Mirror(fs, messagelist) /\ NoTwins(fs) /\ CallReturns) =>
             /\ Mirror(fs', messagelist')
             /\ NoTwins(fs')]_vars

\* After a scan a message was saved with the flags S and F and another
\* message deleted: the cache holds the new message, in cur, and is what
\* a scan would give.
C23_Witness ==
    /\ listcached
    /\ lastop.op = "delete"
    /\ lastop.ret = "ok"
    /\ lastop.log = <<"unlink">>
    /\ NoTwins(fs)
    /\ Mirror(fs, messagelist)
    /\ \E u \in DOMAIN messagelist :
          /\ u >= 0
          /\ messagelist[u].filename.dir = "cur"
          /\ messagelist[u].filename.name.tok[1] >= 1
          /\ messagelist[u].flags = <<FlagF, FlagS>>

\* ============================================================ syncmoves
\* One run of MaildirRepository.syncmoves(remoterepos, statusrepos).  The
\* remote folders, the status folders and MaildirFolder._parse_filename
\* and _move_file are not part of the two source files: they are modelled
\* from their description (copy by id giving a new id, delete by id, the
\* expunge attribute, a status cache as a mapping from id to record).

\* save_interval = 100
SaveInterval == 100

\* What the marker number id may say: a message moved from A to B or from
\* B to A, one moved within A, one whose destination file is gone, and one
\* whose file name carries no uid of this folder (a placeholder).
MarkerKinds(id) ==
    {[src |-> "A", dst |-> "B", uid |-> id, exists |-> TRUE, oldflags |-> <<FlagS>>],
     [src |-> "B", dst |-> "A", uid |-> id, exists |-> TRUE, oldflags |-> <<>>],
     [src |-> "A", dst |-> "A", uid |-> id, exists |-> TRUE, oldflags |-> <<>>],
     [src |-> "A", dst |-> "B", uid |-> id, exists |-> FALSE, oldflags |-> <<>>],
     [src |-> "A", dst |-> "B", uid |-> 0 - 1, exists |-> TRUE, oldflags |-> <<>>]}

MarkerIds == 1..MaxMarkers

\* The id the remote store gives the copy made for marker id.
NewUid(id) == SaveInterval + id

\* What remotecopymessage may do: return an id (a new one, 0 or -1), raise
\* NotImplementedError, or fail in another way.
CopyResults ==
    {[kind |-> "returns", value |-> v] : v \in {0 - 1, 0, 1}}
        \cup {[kind |-> "notimplemented", value |-> 0],
              [kind |-> "raises", value |-> 0]}

\* if newuid <= 0: continue, with 0 let through
UsableFromZero(newuid) == newuid >= 0

\* The copy gave an id to go on with: not (newuid <= 0).
Usable(newuid) == newuid > 0

\* The messages and status records the markers speak of.
InitMoves ==
    /\ now = 1
    /\ lasttime = 0
    /\ timeseq = 0
    /\ timelock = 0
    /\ pc = [t \in Threads |-> "idle"]
    /\ thistime = [t \in Threads |-> 0]
    /\ issued = <<>>
    /\ fs = {}
    /\ messagelist = <<>>
    /\ listcached = FALSE
    /\ lastop = NoOp
    /\ extsteps = 0
    /\ save = IdleSave
    /\ crash = NoCrash
    /\ base = {}
    /\ markers \in {m \in [MarkerIds -> UNION {MarkerKinds(id) : id \in MarkerIds}] :
                      \A id \in MarkerIds : m[id] \in MarkerKinds(id)}
    /\ mv \in SUBSET MarkerIds
    /\ \A id \in MarkerIds \ mv : markers[id].src = markers[id].dst
    /\ runpc = "idle"
    /\ remote = [f \in MoveFolders |->
                    {markers[id].uid : id \in {i \in mv : markers[i].src = f
                                                  /\ markers[i].uid > 0}}]
    /\ rexpunge = [f \in MoveFolders |-> TRUE]
    /\ localuids = [f \in MoveFolders |->
                    {markers[id].uid : id \in {i \in mv : markers[i].dst = f
                                                  /\ markers[i].exists}}]
    /\ saved = [f \in MoveFolders |->
                    [u \in remote[f] |->
                        [uid |-> u,
                         flags |-> markers[CHOOSE i \in mv : markers[i].uid = u].oldflags]]]
    /\ status = [f \in MoveFolders |-> <<>>]
    /\ dirty = {}
    /\ deletecounter \in {0, SaveInterval - 2}
    /\ processed = 0
    /\ bulk \in {0, SaveInterval - 2}
    /\ bulk = 0 \/ deletecounter = 0
    /\ replayed = {}
    /\ runs = 1
    /\ foldercache = {}
    /\ calls = <<>>
    /\ lastmove = [id |-> 0, outcome |-> "none"]
    /\ NoRepo

\* A call on a collaborator: which, for which marker, with which value
\* (the id returned by a copy, 1 for a delete with expunge in force and 0
\* for one with expunge deferred).
MkCall(call, id, folder, value) ==
    [call |-> call, marker |-> id, folder |-> folder, value |-> value]

\* if not next(self._getmoves(), False): return; then the cache of the
\* status folders is set up and dirty_status is empty.
BeginMoves ==
    /\ runpc = "idle"
    /\ IF mv = {} /\ bulk = 0
       THEN /\ runpc' = "returned"
            /\ foldercache' = {"local"}
            /\ UNCHANGED <<status, dirty>>
       ELSE /\ runpc' = "loop"
            /\ foldercache' = {"local", "status"}
            /\ status' = saved
            /\ dirty' = {}
    /\ UNCHANGED <<markers, mv, remote, rexpunge, localuids, saved,
                   deletecounter, calls, lastmove, processed, bulk, replayed, runs>>
    /\ UNCHANGED <<seqvars, foldervars, crashvars, repovars>>

\* The state syncmoves works on, as one record.
MoveState ==
    [remote |-> remote, rexpunge |-> rexpunge, localuids |-> localuids,
     status |-> status, saved |-> saved, dirty |-> dirty,
     deletecounter |-> deletecounter, calls |-> calls,
     outcome |-> "none", raised |-> FALSE]

\* newuid = remote_oldfolder.remotecopymessage(uid, remote_newfolder)
AfterCopy(st, id, m, copy) ==
    [st EXCEPT
        !.remote = IF copy.kind = "returns" /\ copy.value > 0
                   THEN [st.remote EXCEPT ![m.dst] = @ \cup {NewUid(id)}]
                   ELSE st.remote,
        !.calls = IF copy.kind = "returns"
                  THEN Append(st.calls,
                              MkCall("copy", id, m.src,
                                     IF copy.value > 0 THEN NewUid(id) ELSE copy.value))
                  ELSE Append(st.calls, MkCall("copy failed", id, m.src, 0))]

\* self.deletecounter += 1; expunge set False unless the counter is a
\* multiple of save_interval; remote_oldfolder.deletemessage(uid).
\* remote_oldfolder comes from remoterepos.getfolder(), which is not part
\* of this repository class: it is the object handed out before for the
\* folder (samehandle), with the expunge attribute as it was left, or a
\* new object, whose attribute is set.
AfterDelete(st, id, m, fails, samehandle) ==
    LET counter == st.deletecounter + 1
        handle == IF samehandle THEN st.rexpunge[m.src] ELSE TRUE
        expunge == [st.rexpunge EXCEPT
                       ![m.src] = IF counter % SaveInterval # 0
                                  THEN FALSE ELSE handle]
    IN  IF fails
        THEN [st EXCEPT !.deletecounter = counter, !.rexpunge = expunge,
                        !.calls = Append(st.calls,
                                         MkCall("delete failed", id, m.src, 0)),
                        !.raised = TRUE]
        ELSE [st EXCEPT !.deletecounter = counter, !.rexpunge = expunge,
                        !.remote = [st.remote EXCEPT ![m.src] = @ \ {m.uid}],
                        !.calls = Append(st.calls,
                                         MkCall("delete", id, m.src,
                                                IF expunge[m.src] THEN 1 ELSE 0))]

\* local_newfolder._move_file(filename, newuid, flags)
AfterRename(st, id, m, fails) ==
    IF fails
    THEN [st EXCEPT !.calls = Append(st.calls, MkCall("rename failed", id, m.dst, 0)),
                    !.raised = TRUE]
    ELSE [st EXCEPT !.localuids = [st.localuids EXCEPT
                                      ![m.dst] = (@ \ {m.uid}) \cup {NewUid(id)}],
                    !.calls = Append(st.calls,
                                     MkCall("rename", id, m.dst, NewUid(id)))]

\* The status folders are saved one deletion late.
CheckpointLate(counter) == counter % SaveInterval = 1

\* if self.deletecounter % save_interval == 0
CheckpointDue(counter) == counter % SaveInterval = 0

\* The record of the old id is left in the status folder of the source.
AfterStatusKeepsOld(st, id, m) ==
    [st EXCEPT !.status = [st.status EXCEPT
                              ![m.dst] = Put(@, NewUid(id),
                                             [uid |-> NewUid(id), flags |-> m.oldflags])],
               !.dirty = st.dirty \cup {m.dst, m.src},
               !.outcome = "moved"]

\* The status folders' caches and dirty_status are brought up to date, and
\* every dirty status folder is saved when the counter is a multiple of
\* save_interval.
AfterStatus(st, id, m) ==
    LET newstatus ==
            [f \in MoveFolders |->
                IF f = m.dst
                THEN Put(st.status[f], NewUid(id),
                         [uid |-> NewUid(id), flags |-> m.oldflags])
                ELSE IF f = m.src /\ m.uid \in DOMAIN st.status[f]
                THEN Del(st.status[f], m.uid)
                ELSE st.status[f]]
        newdirty == st.dirty \cup {m.dst, m.src}
    IN  IF CheckpointDue(st.deletecounter)
        THEN [st EXCEPT !.status = newstatus,
                        !.saved = [f \in MoveFolders |->
                                      IF f \in newdirty THEN newstatus[f]
                                      ELSE st.saved[f]],
                        !.dirty = {},
                        !.calls = Append(st.calls, MkCall("save", id, m.dst, 0)),
                        !.outcome = "moved"]
        ELSE [st EXCEPT !.status = newstatus, !.dirty = newdirty,
                        !.outcome = "moved"]

\* The destination is taken to be there.
DestinationAssumed(st, m) == TRUE

\* os.path.exists(fullname): the file the marker names is in the
\* destination folder under the name it was moved there with.
DestinationExists(st, m) == m.uid \in st.localuids[m.dst]

\* The body of the loop of syncmoves for the marker id, the collaborators
\* answering as given: lookupfails when one of the six folder lookups
\* raises (getfolder for a folder the repository does not list, a status
\* folder missing from the cache).
MoveBody(st, id, m, copy, lookupfails, deletefails, renamefails, samehandle) ==
    IF m.src = m.dst
    THEN [st EXCEPT !.outcome = "same folder"]
    ELSE IF ~DestinationExists(st, m)
    THEN [st EXCEPT !.outcome = "gone"]
    ELSE IF lookupfails
    THEN [st EXCEPT !.calls = Append(st.calls, MkCall("lookup failed", id, m.dst, 0)),
                    !.outcome = "failed", !.raised = TRUE]
    ELSE IF m.uid < 0
    THEN [st EXCEPT !.outcome = "placeholder"]
    ELSE IF copy.kind = "notimplemented"
    THEN [AfterCopy(st, id, m, copy) EXCEPT !.outcome = "notimplemented"]
    ELSE IF copy.kind = "raises"
    THEN [AfterCopy(st, id, m, copy) EXCEPT !.outcome = "failed", !.raised = TRUE]
    ELSE IF ~Usable(copy.value)
    THEN [AfterCopy(st, id, m, copy) EXCEPT !.outcome = "no new id"]
    ELSE LET d == AfterDelete(AfterCopy(st, id, m, copy), id, m, deletefails,
                              samehandle)
             r == AfterRename(d, id, m, renamefails)
         IN  IF d.raised
             THEN [d EXCEPT !.outcome = "failed"]
             ELSE IF r.raised
             THEN [r EXCEPT !.outcome = "failed"]
             ELSE AfterStatus(r, id, m)

\* _getmoves goes through the folders in the order of getfolders().
NextMarkers ==
    IF \E id \in mv : markers[id].src = "A"
    THEN {id \in mv : markers[id].src = "A"}
    ELSE mv

\* The markers with source = destination are gone through, one after the
\* other: each is skipped and removed.
SkipBulk ==
    /\ runpc = "loop"
    /\ bulk > 0
    /\ processed' = processed + bulk
    /\ bulk' = 0
    /\ UNCHANGED <<markers, mv, runpc, remote, rexpunge, localuids, status, saved,
                   dirty, deletecounter, foldercache, calls, lastmove, replayed, runs>>
    /\ UNCHANGED <<seqvars, foldervars, crashvars, repovars>>

\* One turn of the loop.  An exception leaves syncmoves at once; the
\* generator _getmoves_postdelete is then closed when it is collected,
\* which removes the marker (removed) at once or not before the process
\* ends.  Without an exception the marker is removed after the body,
\* unless the process is killed before that (not removed).
MoveMarker(id, copy, lookupfails, deletefails, renamefails, samehandle, removed) ==
    /\ runpc = "loop"
    /\ id \in NextMarkers
    /\ LET r == MoveBody(MoveState, id, markers[id], copy, lookupfails,
                         deletefails, renamefails, samehandle)
       IN  /\ remote' = r.remote
           /\ rexpunge' = r.rexpunge
           /\ localuids' = r.localuids
           /\ status' = r.status
           /\ saved' = r.saved
           /\ dirty' = r.dirty
           /\ deletecounter' = r.deletecounter
           /\ calls' = r.calls
           /\ lastmove' = [id |-> id, outcome |-> r.outcome]
           /\ foldercache' = IF r.outcome \in {"same folder", "gone"}
                             THEN foldercache
                             ELSE foldercache \cup {"remote"}
           /\ runpc' = IF r.raised THEN "aborted"
                       ELSE IF removed THEN "loop" ELSE "killed"
           /\ mv' = IF removed THEN mv \ {id} ELSE mv
           /\ replayed' = IF r.outcome = "moved" THEN replayed \cup {id} ELSE replayed
    /\ processed' = processed + 1
    /\ UNCHANGED <<markers, bulk, runs>>
    /\ UNCHANGED <<seqvars, foldervars, crashvars, repovars>>

\* The folder lists are forgotten before the status folders are saved.
FinalCallsForgetFirst ==
    <<MkCall("expunge", 0, "A", 1), MkCall("expunge", 0, "B", 1),
      MkCall("forget", 0, "local", 0), MkCall("forget", 0, "remote", 0),
      MkCall("forget", 0, "status", 0),
      MkCall("save", 0, "A", 0), MkCall("save", 0, "B", 0)>>

\* The calls made after the loop: doexpunge on every remote folder, save
\* on every status folder of the cache, forgetfolders on the three
\* repositories.
FinalCalls ==
    <<MkCall("expunge", 0, "A", 1), MkCall("expunge", 0, "B", 1),
      MkCall("save", 0, "A", 0), MkCall("save", 0, "B", 0),
      MkCall("forget", 0, "local", 0), MkCall("forget", 0, "remote", 0),
      MkCall("forget", 0, "status", 0)>>

\* After the loop: the final calls are made; the status folders are as
\* saved, and the folder objects handed out so far are dropped.
FinishMoves ==
    /\ runpc = "loop"
    /\ mv = {}
    /\ bulk = 0
    /\ calls' = calls \o FinalCalls
    /\ saved' = status
    /\ foldercache' = {}
    /\ rexpunge' = [f \in MoveFolders |-> TRUE]
    /\ runpc' = "done"
    /\ UNCHANGED <<markers, mv, remote, localuids, status, dirty,
                   deletecounter, lastmove, processed, bulk, replayed, runs>>
    /\ UNCHANGED <<seqvars, foldervars, crashvars, repovars>>

\* After a kill syncmoves is called again by a new process: the
\* repository and folder objects are new ones.
NextRun ==
    /\ runpc = "killed"
    /\ runs < MaxRuns
    /\ runs' = runs + 1
    /\ runpc' = "idle"
    /\ calls' = <<>>
    /\ processed' = 0
    /\ lastmove' = [id |-> 0, outcome |-> "none"]
    /\ deletecounter' = 0
    /\ rexpunge' = [f \in MoveFolders |-> TRUE]
    /\ status' = [f \in MoveFolders |-> <<>>]
    /\ dirty' = {}
    /\ foldercache' = {}
    /\ UNCHANGED <<markers, mv, remote, localuids, saved, bulk, replayed>>
    /\ UNCHANGED <<seqvars, foldervars, crashvars, repovars>>

\* How the collaborators answer in one turn of the loop: the lookups
\* fail, or the copy does not give a usable id, or the copy gives one and
\* the delete fails, the rename fails, or neither does; where the remote
\* delete is reached, the remote repository has handed out the folder
\* object it handed out before or a new one.
Answers ==
    {a \in [copy : CopyResults, lookupfails : BOOLEAN,
            deletefails : BOOLEAN, renamefails : BOOLEAN,
            samehandle : BOOLEAN] :
        /\ a.lookupfails => a.copy = [kind |-> "notimplemented", value |-> 0]
        /\ (a.lookupfails \/ a.copy.kind # "returns" \/ a.copy.value <= 0)
              => (~a.deletefails /\ ~a.renamefails /\ a.samehandle)
        /\ a.deletefails => ~a.renamefails}

NextMoves ==
    \/ BeginMoves
    \/ SkipBulk
    \/ \E id \in MarkerIds, a \in Answers, removed \in BOOLEAN :
          MoveMarker(id, a.copy, a.lookupfails, a.deletefails, a.renamefails,
                     a.samehandle, removed)
    \/ FinishMoves
    \/ NextRun

SpecMoves == InitMoves /\ [][NextMoves]_vars

\* C3: an unexpected failure while one marker is replayed abandons that
\* marker only: the run goes on with the markers that are left and reaches
\* finalization (remote expunge, status folders saved, folder lists
\* forgotten).  Stated on the end of a run that has gone through its loop:
\* no marker is left unprocessed and the finalization has been made.
C3_FailureAbandonsMarkerOnly ==
    (lastmove.outcome = "failed") =>
        /\ runpc \in {"loop", "done"}
        /\ (runpc = "loop" \/
              /\ mv = {}
              /\ \E i \in 1..Len(calls) : calls[i].call = "forget")

\* A call of deletemessage for a marker comes after a copy for the same
\* marker that returned a positive id.
DeleteFollowsCopy(log) ==
    \A i \in 1..Len(log) :
        log[i].call \in {"delete", "delete failed"} =>
            \E j \in 1..(i - 1) :
                /\ log[j].call = "copy"
                /\ log[j].marker = log[i].marker
                /\ log[j].value > 0

\* C4: the message is deleted from the remote source folder for a marker
\* only after the remote copy for that marker returned a positive id; a
\* marker whose copy is not implemented or returns an id <= 0 causes no
\* remote deletion, no local rename, no change of a status folder's cache
\* and none of the dirty set.
C4_DeleteOnlyAfterCopy ==
    [][/\ DeleteFollowsCopy(calls')
       /\ (/\ lastmove'.outcome \in {"notimplemented", "no new id"}
           /\ lastmove' # lastmove) =>
              /\ calls' = Append(calls, calls'[Len(calls')])
              /\ calls'[Len(calls')].marker = lastmove'.id
              /\ calls'[Len(calls')].call \in {"copy", "copy failed"}
              /\ calls'[Len(calls')].value <= 0
              /\ UNCHANGED <<remote, localuids, status, saved, dirty>>]_vars

\* One marker has been replayed up to the remote delete, and the copy for
\* the next one has returned 0.
C4_Witness ==
    /\ lastmove.outcome = "no new id"
    /\ calls[Len(calls)].value = 0
    /\ \E i \in 1..Len(calls) : calls[i].call = "delete"

\* The step is one turn of the loop of syncmoves, for the marker
\* lastmove'.id.
MarkerStep == processed' = processed + 1

\* The calls made in the step.
NewCalls == SubSeq(calls', Len(calls) + 1, Len(calls'))

\* C14: a marker whose source folder is its destination folder, whose
\* destination file is gone, or whose id is a placeholder is skipped
\* without error: no call is made on the remote folders, no status folder
\* and no local file changes, and the marker file is removed.
C14_SkipWithoutError ==
    [][(/\ MarkerStep
        /\ runpc' # "killed"
        /\ LET m == markers[lastmove'.id]
           IN  m.src = m.dst \/ m.uid \notin localuids[m.dst] \/ m.uid < 0) =>
          /\ lastmove'.outcome \in {"same folder", "gone", "placeholder"}
          /\ runpc' = "loop"
          /\ calls' = calls
          /\ UNCHANGED <<remote, localuids, status, saved, dirty>>
          /\ lastmove'.id \notin mv']_vars

\* C15 as stated: each time the number of markers processed in the run
\* reaches a multiple of K, every dirty status folder is saved and the
\* dirty set is empty before the next marker.
C15_Original ==
    [][(MarkerStep /\ runpc' = "loop" /\ processed' % SaveInterval = 0) =>
          /\ dirty' = {}
          /\ \A f \in MoveFolders : saved'[f] = status'[f]]_vars

\* The renames (replays gone through) since the last save of status
\* folders, in a log of calls.
RECURSIVE UnsavedMoves(_)
UnsavedMoves(log) ==
    IF log = <<>> \/ log[Len(log)].call = "save"
    THEN 0
    ELSE UnsavedMoves(SubSeq(log, 1, Len(log) - 1))
            + (IF log[Len(log)].call = "rename" THEN 1 ELSE 0)

\* C15, amended: each time the deletion counter of the repository (raised
\* by every marker replayed as far as the remote delete, over all runs
\* of the repository object; skipped markers are not counted) is a
\* multiple of K at the end of a replay, every dirty status folder is saved
\* and the dirty set is emptied before the next marker; otherwise the
\* source and destination status folders join the dirty set and nothing
\* is saved.  Unsaved status edits so never span more than K replayed
\* markers: their number is at most the counter modulo K (the counter
\* before the failed delete, when a delete fails and ends the run).
C15_Checkpoint ==
    [][MarkerStep =>
          LET m == markers[lastmove'.id]
          IN  /\ lastmove'.outcome = "moved" =>
                    IF deletecounter' % SaveInterval = 0
                    THEN /\ dirty' = {}
                         /\ \A f \in dirty \cup {m.src, m.dst} :
                               saved'[f] = status'[f]
                    ELSE /\ dirty' = dirty \cup {m.src, m.dst}
                         /\ saved' = saved
              /\ lastmove'.outcome # "moved" => (dirty' = dirty /\ saved' = saved)
              /\ dirty' # {} =>
                    /\ UnsavedMoves(calls') >= 1
                    /\ \/ UnsavedMoves(calls') <= deletecounter' % SaveInterval
                       \/ /\ runpc' = "aborted"
                          /\ UnsavedMoves(calls') <= (deletecounter' - 1) % SaveInterval]_vars

\* The status folders have just been saved in the loop, after the second
\* replay of the run.
C15_Witness ==
    /\ runpc = "loop"
    /\ lastmove.outcome = "moved"
    /\ dirty = {}
    /\ calls[Len(calls)].call = "save"
    /\ \E i, j \in 1..Len(calls) :
          i # j /\ calls[i].call = "rename" /\ calls[j].call = "rename"

\* The places of a call in a log.
Places(log, call) == {i \in 1..Len(log) : log[i].call = call}

\* The log ends with the finalization: every remote folder is expunged
\* once, then every status folder is saved, then the folder lists of the
\* local, the remote and the status repository are forgotten.
Finalized(log) ==
    /\ \A f \in MoveFolders :
          Cardinality({i \in Places(log, "expunge") : log[i].folder = f}) = 1
    /\ \A f \in MoveFolders :
          \E i \in Places(log, "save") : log[i].marker = 0 /\ log[i].folder = f
    /\ {log[i].folder : i \in Places(log, "forget")} = {"local", "remote", "status"}
    /\ \A i \in Places(log, "expunge"), j \in Places(log, "save") :
          log[j].marker = 0 => i < j
    /\ \A i \in Places(log, "save"), j \in Places(log, "forget") : i < j
    /\ \A j \in Places(log, "forget") :
          \A i \in 1..Len(log) : log[i].marker # 0 => i < j

\* C16 as stated: every run of syncmoves ends with finalization.  Stated
\* for the runs that return normally.
C16_Original ==
    runpc \in {"returned", "done"} => Finalized(calls)

\* C16, amended: a run of syncmoves that finds at least one marker and
\* whose loop comes to its end finishes with finalization: each remote
\* folder is expunged once, every status folder (dirty or not) is saved,
\* and the folder lists of the local, remote and status repositories are
\* forgotten, in that order.  A run that finds no marker returns at once
\* without finalization, and so does a run that an exception leaves.
C16_Finalization ==
    /\ runpc = "done" =>
          /\ Finalized(calls)
          /\ mv = {}
          /\ \A f \in MoveFolders : saved[f] = status[f]
          /\ foldercache = {}
    /\ runpc = "returned" => calls = <<>>
    /\ runpc = "aborted" => Places(calls, "forget") = {}

\* A run has ended after a replay that left status folders dirty.
C16_Witness ==
    /\ runpc = "done"
    /\ dirty # {}
    /\ Places(calls, "rename") # {}

C18_KthDeleteExpunges ==
    [][(MarkerStep /\ Len(NewCalls) >= 2 /\ NewCalls[2].call = "delete") =>
          (NewCalls[2].value = 1 <=> deletecounter' % SaveInterval = 0)]_vars

\* C19: a marker that has been replayed to the end and is still there (its
\* removal was lost) is gone through again without a call on the remote
\* folders and without a change of the local files or of a status folder.
C19_ReplayIdempotent ==
    [][(MarkerStep /\ lastmove'.id \in replayed) =>
          /\ lastmove'.outcome = "gone"
          /\ calls' = calls
          /\ UNCHANGED <<remote, localuids, status, saved, dirty, deletecounter>>]_vars

\* In a later run a marker that had been replayed before has been skipped.
C19_Witness ==
    /\ runs >= 2
    /\ lastmove.id \in replayed
    /\ lastmove.outcome = "gone"
    /\ calls = <<>>

\* ============================================================ SpecRepo
\* MaildirRepository.makefolder, getfolders and forgetfolders.  A folder
\* name is the sequence of its parts between '/' ("a/b" is <<"a", "b">>,
\* "/a" is <<"", "a">>, "a/" is <<"a", "">>); a path is the sequence of
\* its parts below self.root, a path that leaves the root beginning with
\* "..".

\* ['cur', 'new', 'tmp']
Reserved == <<"cur", "new", "tmp">>

ReservedNames == {Reserved[i] : i \in 1..Len(Reserved)}

\* Folder names makefolder is called with.
FolderNames ==
    {<<"a">>, <<"a", "b">>, <<"a", "b", "c">>, <<"a", "">>,
     <<"..">>, <<"a", "..">>, <<"..", "a">>, <<"", "a">>,
     <<"cur">>, <<"a", "tmp">>}

\* What is found below the root when the repository is set up: nothing, a
\* regular file where a folder may go, and a folder a with a regular file
\* where its cur may go.
FoundTrees ==
    {[dirs |-> {<<>>, <<"..">>}, files |-> {}],
     [dirs |-> {<<>>, <<"..">>}, files |-> {<<"a">>}],
     [dirs |-> {<<>>, <<"..">>, <<"a">>}, files |-> {<<"a", "cur">>}]}

\* os.path.abspath(os.path.join(self.root, foldername)), below the root.
RECURSIVE AbsPath(_, _)
AbsPath(acc, rest) ==
    IF rest = <<>>
    THEN acc
    ELSE LET part == Head(rest)
         IN  IF part = ""
             THEN AbsPath(acc, Tail(rest))
             ELSE IF part = ".." /\ acc # <<>> /\ acc[Len(acc)] # ".."
             THEN AbsPath(SubSeq(acc, 1, Len(acc) - 1), Tail(rest))
             ELSE AbsPath(Append(acc, part), Tail(rest))

\* component in ['new', 'cur', 'tmp'] for a component of foldername.split('/')
HasReservedPart(name) == \E i \in 1..Len(name) : name[i] \in ReservedNames

\* foldername.find('../') != -1
FindsDotDotSlash(name) == \E i \in 1..(Len(name) - 1) : name[i] = ".."

\* foldername.startswith('/')
StartsWithSlash(name) == Len(name) >= 2 /\ name[1] = ""

\* The three assertions of makefolder: one of them fails.
SanityFails(name, sepv) ==
    \/ sepv = "/" /\ HasReservedPart(name)
    \/ FindsDotDotSlash(name)
    \/ StartsWithSlash(name)

\* The paths from the first part of p down to p.
Prefixes(p) == {SubSeq(p, 1, n) : n \in 1..Len(p)}

\* os.makedirs(full_path): [dirs, ret], ret the errno of the OSError or 0.
MakeDirs(dirs, files, path, denied) ==
    IF \E q \in Prefixes(path) \ {path} : q \in files
    THEN [dirs |-> dirs, ret |-> 20]
    ELSE IF path \in dirs \cup files \/ path = <<>>
    THEN [dirs |-> dirs, ret |-> 17]
    ELSE IF denied
    THEN [dirs |-> dirs, ret |-> 13]
    ELSE [dirs |-> dirs \cup Prefixes(path), ret |-> 0]

\* except OSError as e: if e.errno == 17 and os.path.isdir(full_path)
Swallowed(dirs, path, subdir) == path \in dirs

\* for subdir in ['cur', 'new', 'tmp']: os.mkdir(...), from the i-th on;
\* deniedat is the subdirectory whose mkdir fails for another reason.
RECURSIVE MakeSubdirs(_, _, _, _, _)
MakeSubdirs(dirs, files, path, i, deniedat) ==
    IF i > Len(Reserved)
    THEN [dirs |-> dirs, ret |-> "ok"]
    ELSE LET subdir == Append(path, Reserved[i])
         IN  IF subdir \in dirs \cup files
             THEN IF Swallowed(dirs, path, subdir)
                  THEN MakeSubdirs(dirs, files, path, i + 1, deniedat)
                  ELSE [dirs |-> dirs, ret |-> "error"]
             ELSE IF deniedat = Reserved[i]
             THEN [dirs |-> dirs, ret |-> "error"]
             ELSE MakeSubdirs(dirs \cup {subdir}, files, path, i + 1, deniedat)

\* makefolder(foldername): [dirs, ret]; denied names the system call that
\* fails for a reason other than errno 17 ("makedirs", a subdirectory, or
\* "none").
makefolder(dirs, files, name, sepv, dry, denied) ==
    IF dry
    THEN [dirs |-> dirs, ret |-> "ok"]
    ELSE IF SanityFails(name, sepv)
    THEN [dirs |-> dirs, ret |-> "rejected"]
    ELSE LET full_path == AbsPath(<<>>, name)
             made == MakeDirs(dirs, files, full_path, denied = "makedirs")
         IN  IF made.ret # 0 /\ ~(made.ret = 17 /\ full_path \in made.dirs)
             THEN [dirs |-> made.dirs, ret |-> "error"]
             ELSE MakeSubdirs(made.dirs, files, full_path, 1, denied)

\* os.listdir(toppath)
ListDir(dirs, files, toppath) ==
    {q[Len(q)] : q \in {r \in dirs \cup files :
                           /\ Len(r) = Len(toppath) + 1
                           /\ SubSeq(r, 1, Len(toppath)) = toppath
                           /\ r[Len(r)] # ".."}}

\* cur, new and tmp are directories in fullname.
IsMaildir(dirs, fullname) ==
    \A i \in 1..Len(Reserved) : Append(fullname, Reserved[i]) \in dirs

\* The test of the separator is made against '.'.
RecurseOnDot(sepv, dirname) == sepv = "." /\ dirname # ""

\* if self.getsep() == '/' and dirname != ''
Recurse(sepv, dirname) == sepv = "/" /\ dirname # ""

\* _getfolders_scandir(root, extension): the names of the folders found;
\* extension is <<>> for None and <<path>> otherwise.
RECURSIVE getfolders_scandir(_, _, _, _)
getfolders_scandir(dirs, files, sepv, extension) ==
    LET toppath == IF extension = <<>> THEN <<>> ELSE extension[1]
        Found(dirname) ==
            IF dirname = "" /\ extension # <<>>
            THEN {}
            ELSE IF dirname \in ReservedNames
            THEN {}
            ELSE LET fullname == IF dirname = "" THEN toppath
                                 ELSE Append(toppath, dirname)
                     foldername == fullname
                 IN  IF fullname \notin dirs
                     THEN {}
                     ELSE (IF IsMaildir(dirs, fullname) THEN {foldername} ELSE {})
                          \cup (IF Recurse(sepv, dirname)
                                THEN getfolders_scandir(dirs, files, sepv,
                                                        <<foldername>>)
                                ELSE {})
    IN  UNION {Found(dirname) : dirname \in ListDir(dirs, files, toppath) \cup {""}}

\* A call of a repository method: what, with which name, how it ended, the
\* names of the folders returned, whether self.folders was None when it
\* began, and the call before it.
MkRepoOp(op, name, ret, found, fresh) ==
    [op |-> op, name |-> name, ret |-> ret, found |-> found, fresh |-> fresh,
     before |-> [op |-> lastrepo.op, name |-> lastrepo.name, ret |-> lastrepo.ret]]

\* makefolder(foldername)
MakeFolder(name, denied) ==
    /\ makes < MaxMake
    /\ LET r == makefolder(rdirs, rfiles, name, sep, dryrun, denied)
       IN  /\ rdirs' = r.dirs
           /\ lastrepo' = MkRepoOp("make", name, r.ret, {}, folders = <<>>)
    /\ makes' = makes + 1
    /\ UNCHANGED <<rfiles, folders, sep, dryrun>>
    /\ UNCHANGED <<seqvars, foldervars, crashvars, movevars>>

\* getfolders()
GetFolders ==
    /\ folders' = IF folders = <<>>
                  THEN <<getfolders_scandir(rdirs, rfiles, sep, <<>>)>>
                  ELSE folders
    /\ lastrepo' = MkRepoOp("discover", lastrepo.name, "ok", folders'[1],
                            folders = <<>>)
    /\ UNCHANGED <<rdirs, rfiles, sep, dryrun, makes>>
    /\ UNCHANGED <<seqvars, foldervars, crashvars, movevars>>

\* forgetfolders()
ForgetFolders ==
    /\ folders # <<>>
    /\ folders' = <<>>
    /\ lastrepo' = MkRepoOp("forget", lastrepo.name, "ok", {}, FALSE)
    /\ UNCHANGED <<rdirs, rfiles, sep, dryrun, makes>>
    /\ UNCHANGED <<seqvars, foldervars, crashvars, movevars>>

\* A repository object has been made: the root exists, nothing is cached.
InitRepo ==
    /\ now = 1
    /\ lasttime = 0
    /\ timeseq = 0
    /\ timelock = 0
    /\ pc = [t \in Threads |-> "idle"]
    /\ thistime = [t \in Threads |-> 0]
    /\ issued = <<>>
    /\ fs = {}
    /\ messagelist = <<>>
    /\ listcached = FALSE
    /\ lastop = NoOp
    /\ extsteps = 0
    /\ save = IdleSave
    /\ crash = NoCrash
    /\ base = {}
    /\ NoMoves
    /\ \E tree \in FoundTrees : rdirs = tree.dirs /\ rfiles = tree.files
    /\ folders = <<>>
    /\ sep \in {"/", "."}
    /\ dryrun \in BOOLEAN
    /\ lastrepo = NoRepoOp
    /\ makes = 0

NextRepo ==
    \/ \E name \in FolderNames, denied \in {"none", "makedirs", "new"} :
          MakeFolder(name, denied)
    \/ GetFolders
    \/ ForgetFolders

SpecRepo == InitRepo /\ [][NextRepo]_vars

\* ---------------------------------------------------- claims on SpecRepo
\* The name is made of ordinary parts: none is empty or '..'.
Plain(name) == \A i \in 1..Len(name) : name[i] \notin {"", ".."}

\* The step is a getfolders() that follows a makefolder(name) which
\* returned normally, outside dry-run, with separator '/' and a plain name.
DiscoverAfterMake ==
    /\ lastrepo'.op = "discover"
    /\ lastrepo.op = "make"
    /\ lastrepo.ret = "ok"
    /\ ~dryrun
    /\ sep = "/"
    /\ Plain(lastrepo.name)

\* C11 as stated: with separator '/', a discover() that follows a
\* successful createFolder(name) returns a folder named name, whatever
\* calls of discover() came before the createFolder.  Stated for the
\* cases in which the createFolder left the three partitions as
\* directories.
C11_Original ==
    [][(DiscoverAfterMake /\ IsMaildir(rdirs, lastrepo.name))
          => lastrepo.name \in lastrepo'.found]_vars

\* C11, amended: with separator '/', a discover() that follows a
\* successful createFolder(name) returns the cached list unchanged when a
\* list is cached; when none is cached (no discover() since the repository
\* was made or since the last forget) it returns a folder named name
\* exactly when the three partitions of name are directories, which they
\* are unless something that is no directory stood in a partition's place.
C11_DiscoverAfterCreate ==
    [][DiscoverAfterMake =>
          IF folders # <<>>
          THEN /\ lastrepo'.found = folders[1]
               /\ folders' = folders
          ELSE /\ lastrepo.name \in lastrepo'.found <=> IsMaildir(rdirs, lastrepo.name)
               /\ (\A i \in 1..Len(Reserved) :
                      Append(lastrepo.name, Reserved[i]) \notin rfiles)
                    => lastrepo.name \in lastrepo'.found]_vars

\* A discover() without a cached list has returned the nested folder that
\* was created just before.
C11_Witness ==
    /\ lastrepo.op = "discover"
    /\ lastrepo.fresh
    /\ lastrepo.before.op = "make"
    /\ lastrepo.before.ret = "ok"
    /\ ~dryrun
    /\ sep = "/"
    /\ Len(lastrepo.before.name) = 3
    /\ lastrepo.before.name \in lastrepo.found

\* C12: createFolder(name) raises no error when the folder and its
\* partitions exist already, and whenever it returns normally outside
\* dry-run the folder directory and its three partitions exist as
\* directories.
C12_CreateComplete ==
    [][(lastrepo'.op = "make" /\ ~dryrun /\ ~SanityFails(lastrepo'.name, sep)) =>
          LET full_path == AbsPath(<<>>, lastrepo'.name)
          IN  /\ (full_path \in rdirs /\ IsMaildir(rdirs, full_path))
                    => (lastrepo'.ret = "ok" /\ rdirs' = rdirs)
              /\ lastrepo'.ret = "ok"
                    => (full_path \in rdirs' /\ IsMaildir(rdirs', full_path))]_vars

\* The name has a part '..', begins with '/', or (separator '/') has a
\* part that is the name of a partition.
Forbidden(name, sepv) ==
    \/ \E i \in 1..Len(name) : name[i] = ".."
    \/ StartsWithSlash(name)
    \/ sepv = "/" /\ HasReservedPart(name)

\* C13: createFolder(name) rejects every name that has a part '..', that
\* begins with '/', or (separator '/') that has a part named like a
\* partition, and the filesystem is then as it was.
C13_RejectsForbidden ==
    [][(lastrepo'.op = "make" /\ ~dryrun /\ Forbidden(lastrepo'.name, sep)) =>
          /\ lastrepo'.ret = "rejected"
          /\ rdirs' = rdirs
          /\ rfiles' = rfiles]_vars

====
